---- MODULE Spec2Model ----
(***************************************************************************)
(* H2O Kubernetes operator: the reconciler (operator/src/controller.rs),   *)
(* the pod fleet manager (deployment/src/pod.rs), assisted clustering      *)
(* (operator/src/clustering.rs), the finalizer manager and the leader      *)
(* service, together with the platform (API server, pods' HTTP API) they   *)
(* talk to.  One reconcile per resource name is in flight at a time; every *)
(* await of the code is a step boundary.                                   *)
(***************************************************************************)
EXTENDS Integers, FiniteSets, Sequences, TLC

\* Largest spec.nodes a user asks for.
MaxNodes == 2
MaxEvents == 3

Names == {"t1", "t2"}
PodIdx == 0..(MaxNodes - 1)

FINALIZER_NAME == "h2os.h2o.ai"
H2O_DEFAULT_PORT == 54321
LEADER_LABEL_KEY == "h2o_leader_node_pod"

VARIABLES
    call,           \* a call of one of the pure functions: its name, its input, its output
    boot,           \* the start of the operator process: position in main, platform objects main touches, exit
    active,         \* names the user creates resources for
    faults,         \* whether the API server and the pods may reject a request that could succeed
    h2o,            \* [Names -> the H2O custom resource as stored by the API server]
    pods,           \* [Names -> [PodIdx -> pod N-i as stored by the API server]]
    services,       \* [Names -> the service named N]
    clusterLeader,  \* [Names -> socket address /cluster/status reports as leader_node]
    pc,             \* [Names -> position of the reconcile in flight]
    loc,            \* [Names -> locals of the reconcile in flight (kept after it ends)]
    result,         \* [Names -> what the last reconcile returned]
    process         \* the operator process: "running" or "crashed"

vars == <<call, boot, active, faults, h2o, pods, services, clusterLeader, pc, loc, result, process>>

----------------------------------------------------------------------------
(* Data *)

NoStatus == [phase |-> "", conditions |-> <<>>]

Condition(cond_type, status) == [type |-> cond_type, status |-> status]

BoolToString(b) == IF b THEN "true" ELSE "false"

H2OStatus(phase, conditions) == [phase |-> phase, conditions |-> conditions]

NoH2O == [exists |-> FALSE, nodes |-> 1, image |-> TRUE, finalizers |-> {},
          deletionTimestamp |-> FALSE, status |-> NoStatus]

NoPod == [phase |-> "none", ip |-> FALSE, api |-> "off", leader |-> FALSE, flat |-> {}]

\* A Service by its name: whether it exists, spec.clusterIP and spec.selector.
NoService == [exists |-> FALSE, clusterIP |-> "", selectorKey |-> "", selectorVal |-> <<>>]

NoAddr == <<0, 0>>

\* The IP the platform gives pod N-i (distinct pods, distinct IPs).
PodIp(i) == 10 + i

SocketAddr(ip, port) == <<ip, port>>

LeaderLabel(n) == <<n, "leader">>

\* deleted and second are history, not locals: deleted says that the last
\* Delete of this name returned Ok and no Create was started since, second
\* that the Create in hand was started in such a state, established that a
\* Create of this name returned Ok and no Delete was started since, preexisting
\* the pods whose names were taken when create_pods sent its requests.
NoLoc == [action |-> "", nodes |-> 0, image |-> FALSE,
          created |-> {}, failed |-> {}, deleteIssued |-> {},
          discovered |-> {}, flatOk |-> FALSE, leader |-> NoAddr,
          podCount |-> 0, events |-> 0, at |-> "",
          deleted |-> FALSE, second |-> FALSE, established |-> FALSE,
          preexisting |-> {}]

\* Names a CustomResourceDefinition may declare versions under.
VersionNames == {"v1beta", "v2"}

Version(name, served) == [name |-> name, served |-> served]

\* H2O_RESOURCE_TEMPLATE: the versions of the CRD compiled into the operator.
construct_h2o_crd == {Version("v1beta", TRUE)}

\* The version lists an installed CRD may carry: each name at most once.
CrdVersionLists ==
    {V \in SUBSET {Version(v, b) : v \in VersionNames, b \in BOOLEAN} :
        /\ V # {}
        /\ \A x, y \in V : x.name = y.name => x = y}

NoCrd == [present |-> FALSE, versions |-> {}]

H2O_CLUSTERING_JAR_FILE_NAME == "h2o-clustering.jar"

\* What the file H2O_CLUSTERING_JAR_PATH names may hold.
JarFiles == {"jar1", "jar2"}

\* The binary_data a ConfigMap h2o-clustering found at the start may hold.
StaleBinaryData ==
    {{<<H2O_CLUSTERING_JAR_FILE_NAME, "jar1">>},
     {<<H2O_CLUSTERING_JAR_FILE_NAME, "jar1">>, <<"other.jar", "jar2">>}}

\* condition: the status of the CRD's condition NamesAccepted ("" while the CRD
\* has none); events: the events of the watch of wait_crd_status not yet taken;
\* observed: the status in the event wait_crd_status returned Ok on.
\* main before anything ran.  main: "operator" is operator/src/main.rs, "root"
\* is src/main.rs.  env: what H2O_CLUSTERING_JAR_PATH holds.
NoBoot == [main |-> "operator", pc |-> "start", exited |-> FALSE, code |-> 0,
           crd |-> NoCrd, found |-> FALSE, checked |-> FALSE,
           env |-> "file", configmap |-> FALSE, seeded |-> FALSE,
           file |-> "jar1", binary_data |-> {}, replaced |-> FALSE,
           condition |-> "", watching |-> FALSE, events |-> <<>>, observed |-> ""]

\* The operator after a start on a cluster without the CRD.
Booted == [NoBoot EXCEPT !.pc = "controller", !.checked = TRUE,
                         !.condition = "True", !.watching = TRUE, !.observed = "True",
                         !.crd = [present |-> TRUE, versions |-> construct_h2o_crd]]

\* Option: Some(x) and None.
Some(x) == <<x>>
None == <<>>

NoCall == [fn |-> "none", arg |-> <<>>, out |-> <<>>]

\* Pods of cluster n the API server lists under the selector app=n.
PodsLabelled(n) == {i \in PodIdx : pods[n][i].phase # "none"}

LeaderPods(n) == {i \in PodIdx : pods[n][i].phase # "none" /\ pods[n][i].leader}

----------------------------------------------------------------------------
(* Pure functions of the controller *)

has_deletion_stamp(r) == r.deletionTimestamp

\* Mutant: the token tested is the one of another build of the finalizer module.
has_h2o3_finalizer_other_token(r) == "h2o3.h2o.ai" \in r.finalizers

has_h2o3_finalizer(r) == FINALIZER_NAME \in r.finalizers

\* Mutant: every resource marked for deletion is routed to Delete.
examine_ignoring_finalizer(r) ==
    IF has_deletion_stamp(r) THEN "Delete"
    ELSE IF ~has_h2o3_finalizer(r) THEN "Create"
    ELSE "Verify"

examine_h2o_for_actions(r) ==
    LET has_finalizer == has_h2o3_finalizer(r)
        has_deletion_timestamp == has_deletion_stamp(r)
    IN  IF has_finalizer /\ has_deletion_timestamp THEN "Delete"
        ELSE IF ~has_finalizer /\ ~has_deletion_timestamp THEN "Create"
        ELSE "Verify"

is_ready(r) ==
    \E k \in 1..Len(r.status.conditions) :
        /\ r.status.conditions[k].type = "Ready"
        /\ r.status.conditions[k].status = "true"

\* Mutant: the patch takes the token off a list that holds it.
add_finalizer_toggling(finalizers) ==
    IF FINALIZER_NAME \in finalizers THEN finalizers \ {FINALIZER_NAME}
    ELSE finalizers \cup {FINALIZER_NAME}

\* Mutant: the patch leaves the finalizers as they are.
add_finalizer_keeping(finalizers) == finalizers

\* The merge patch {"metadata": {"finalizers": ["h2os.h2o.ai"]}} replaces the list.
add_finalizer(finalizers) == {FINALIZER_NAME}

\* Mutant: the patch takes only the operator's token off the list.
remove_finalizer_own_token(finalizers) == finalizers \ {FINALIZER_NAME}

\* The merge patch {"metadata": {"finalizers": null}} drops the list.
remove_finalizer(finalizers) == {}

\* Mutant: the condition is written under phase Pending.
ready_status_pending(ready) ==
    H2OStatus("Pending", <<Condition("Ready", BoolToString(ready))>>)

\* The status set_ready_condition builds.
ready_status(ready) ==
    H2OStatus("Running", <<Condition("Ready", BoolToString(ready))>>)

\* The socket addresses create_flatfile joins with newlines, one per pod IP.
create_flatfile(D) == {SocketAddr(PodIp(i), H2O_DEFAULT_PORT) : i \in D}

----------------------------------------------------------------------------
EnvInit ==
    /\ call = NoCall
    /\ h2o = [n \in Names |-> NoH2O]
    /\ pods = [n \in Names |-> [i \in PodIdx |-> NoPod]]
    /\ services = [n \in Names |-> NoService]
    /\ clusterLeader = [n \in Names |-> NoAddr]
    /\ pc = [n \in Names |-> "idle"]
    /\ loc = [n \in Names |-> NoLoc]
    /\ result = [n \in Names |-> "none"]
    /\ process = "running"

Init ==
    /\ boot = Booted
    /\ active = {"t1"}
    /\ faults = TRUE
    /\ EnvInit

\* The same system on a platform where no request that could succeed is rejected.
InitNoFaults ==
    /\ boot = Booted
    /\ active = {"t1"}
    /\ faults = FALSE
    /\ EnvInit

\* The outcomes of a request the platform may accept: accepted, or (with faults) rejected.
Outcomes == IF faults THEN BOOLEAN ELSE {TRUE}

\* The subsets of S the platform may accept when each request of S could succeed.
Accepted(S) == IF faults THEN SUBSET S ELSE {S}

\* A start of either binary on a cluster in any state of the CRD, the ConfigMap
\* and the environment variable.
BootInit ==
    /\ \E main \in {"operator", "root"},
          crd \in {NoCrd} \cup {[present |-> TRUE, versions |-> V] : V \in CrdVersionLists},
          env \in {"missing", "notfile", "file"},
          file \in JarFiles,
          binary_data \in {{}} \cup StaleBinaryData :
          boot = [NoBoot EXCEPT !.main = main, !.crd = crd, !.env = env, !.file = file,
                                !.condition = IF crd.present THEN "True" ELSE "",
                                !.configmap = (binary_data # {}),
                                !.binary_data = binary_data]
    /\ active = {"t1"}
    /\ faults = TRUE
    /\ EnvInit

----------------------------------------------------------------------------
(* The user and the platform *)

\* kubectl apply of a new H2O resource named n.
UserCreate(n) ==
    /\ n \in active
    /\ ~h2o[n].exists
    /\ \E nodes \in 1..MaxNodes, image \in BOOLEAN :
          h2o' = [h2o EXCEPT ![n] = [NoH2O EXCEPT !.exists = TRUE,
                                                  !.nodes = nodes,
                                                  !.image = image]]
    /\ UNCHANGED <<call, boot, active, faults, pods, services, clusterLeader, pc, loc, result, process>>

\* kubectl delete: the API server stamps the deletion timestamp.
UserDelete(n) ==
    /\ h2o[n].exists
    /\ ~h2o[n].deletionTimestamp
    /\ h2o' = [h2o EXCEPT ![n].deletionTimestamp = TRUE]
    /\ UNCHANGED <<call, boot, active, faults, pods, services, clusterLeader, pc, loc, result, process>>

\* The platform collects a resource marked for deletion once no finalizer is left.
PlatformCollect(n) ==
    /\ h2o[n].exists
    /\ h2o[n].deletionTimestamp
    /\ h2o[n].finalizers = {}
    /\ h2o' = [h2o EXCEPT ![n] = NoH2O]
    /\ UNCHANGED <<call, boot, active, faults, pods, services, clusterLeader, pc, loc, result, process>>

PlatformAssignIp(n, i) ==
    /\ pods[n][i].phase = "live"
    /\ ~pods[n][i].ip
    /\ pods' = [pods EXCEPT ![n][i].ip = TRUE]
    /\ UNCHANGED <<call, boot, active, faults, h2o, services, clusterLeader, pc, loc, result, process>>

\* The pod's assisted-clustering REST API comes up: GET /cluster/status answers 204.
PodApiOnline(n, i) ==
    /\ pods[n][i].phase = "live"
    /\ pods[n][i].ip
    /\ pods[n][i].api = "off"
    /\ pods' = [pods EXCEPT ![n][i].api = "online"]
    /\ UNCHANGED <<call, boot, active, faults, h2o, services, clusterLeader, pc, loc, result, process>>

\* The H2O nodes named by a flatfile that all of them received form a cluster
\* and elect a leader; GET /cluster/status answers 200 from then on.
H2OFormCluster(n) ==
    \E F \in (SUBSET {SocketAddr(PodIp(i), H2O_DEFAULT_PORT) : i \in PodIdx}) \ {{}} :
        LET M == {i \in PodIdx : /\ pods[n][i].phase = "live"
                                 /\ pods[n][i].api = "online"
                                 /\ pods[n][i].flat = F}
        IN  /\ create_flatfile(M) = F
            /\ \E l \in F : clusterLeader' = [clusterLeader EXCEPT ![n] = l]
            /\ pods' = [pods EXCEPT ![n] =
                          [i \in PodIdx |-> IF i \in M
                                            THEN [pods[n][i] EXCEPT !.api = "clustered"]
                                            ELSE pods[n][i]]]
            /\ UNCHANGED <<call, boot, active, faults, h2o, services, pc, loc, result, process>>

\* The platform finishes the deletion of a terminating pod; a running watcher
\* on app=n receives a Deleted event.
PlatformRemovePod(n, i) ==
    /\ pods[n][i].phase = "term"
    /\ pods' = [pods EXCEPT ![n][i] = NoPod]
    /\ loc' = [loc EXCEPT ![n].events =
                 IF pc[n] = "wait_deleted_watch" THEN @ + 1 ELSE @]
    /\ UNCHANGED <<call, boot, active, faults, h2o, services, clusterLeader, pc, result, process>>

----------------------------------------------------------------------------
(* The operator process *)

\* An unwrap() or expect() on an error unwinds through the controller's stream
\* into main: the process dies with every reconcile in flight.
Panic(n) ==
    /\ process' = "crashed"
    /\ pc' = [m \in Names |-> "idle"]
    /\ result' = [m \in Names |-> IF m = n THEN "Panic"
                                  ELSE IF pc[m] # "idle" THEN "Aborted"
                                  ELSE result[m]]
    /\ loc' = [m \in Names |-> [loc[m] EXCEPT !.events = 0,
                                              !.at = IF m = n THEN pc[n] ELSE @]]

\* The operator is started again; the watch re-delivers every resource.
Restart ==
    /\ process = "crashed"
    /\ process' = "running"
    /\ UNCHANGED <<call, boot, active, faults, h2o, pods, services, clusterLeader, pc, loc, result>>

Return(n, res) ==
    /\ pc' = [pc EXCEPT ![n] = "idle"]
    /\ result' = [result EXCEPT ![n] = res]
    /\ process' = process

Goto(n, label) ==
    /\ pc' = [pc EXCEPT ![n] = label]
    /\ UNCHANGED <<result, process>>

At(n, label) == process = "running" /\ pc[n] = label

----------------------------------------------------------------------------
(* reconcile *)

\* The controller hands the observed resource to reconcile, which routes it.
Reconcile(n) ==
    /\ At(n, "idle")
    /\ h2o[n].exists
    /\ LET action == examine_h2o_for_actions(h2o[n])
       IN  /\ loc' = [loc EXCEPT ![n] = [NoLoc EXCEPT !.action = action,
                                                      !.nodes = h2o[n].nodes,
                                                      !.image = h2o[n].image,
                                                      !.deleted = action # "Create" /\ loc[n].deleted,
                                                      !.second = action = "Create" /\ loc[n].deleted,
                                                      !.established = action # "Delete" /\ loc[n].established]]
           /\ pc' = [pc EXCEPT ![n] = CASE action = "Create" -> "create_pods"
                                        [] action = "Delete" -> "delete_service"
                                        [] OTHER -> "verify"]
    /\ result' = [result EXCEPT ![n] = "none"]
    /\ UNCHANGED <<call, boot, active, faults, h2o, pods, services, clusterLeader, process>>

\* Mutant: verification reports the cluster ready.
VerifySettingReady(n) ==
    /\ At(n, "verify")
    /\ h2o' = [h2o EXCEPT ![n].status = ready_status(TRUE)]
    /\ Return(n, "Ok")
    /\ UNCHANGED <<call, boot, active, faults, pods, services, clusterLeader, loc>>

\* ControllerAction::Verify: log only.
Verify(n) ==
    /\ At(n, "verify")
    /\ Return(n, "Ok")
    /\ UNCHANGED <<call, boot, active, faults, h2o, pods, services, clusterLeader, loc>>

----------------------------------------------------------------------------
(* Create path: deployment::pod::create_pods *)

\* Whether the spec resolves to an image: customImage or version.
image_resolves(l) == l.image

\* Mutant: the finalizer is put on the resource although its pods failed.
on_create_pods_err_adding_finalizer(n) ==
    /\ Return(n, "DeploymentError")
    /\ h2o' = [h2o EXCEPT ![n].finalizers = IF h2o[n].exists THEN add_finalizer(@) ELSE @]
    /\ UNCHANGED <<services, clusterLeader>>

\* What create_h2o_deployment does with Err(_) from create_h2o_pods.
on_create_pods_err(n) ==
    /\ Return(n, "DeploymentError")
    /\ UNCHANGED <<h2o, services, clusterLeader>>

\* Neither customImage nor version: create_pods returns a UserError before any pod.
CreatePodsNoImage(n) ==
    /\ At(n, "create_pods")
    /\ ~image_resolves(loc[n])
    /\ on_create_pods_err(n)
    /\ UNCHANGED <<call, boot, active, faults, pods, loc>>

\* The fan-out of spec.nodes concurrent api.create calls, all resolved.  A name
\* that is taken is a conflict; any other creation succeeds or is rejected.
CreatePods(n) ==
    /\ At(n, "create_pods")
    /\ image_resolves(loc[n])
    /\ \E S \in Accepted({i \in 0..(loc[n].nodes - 1) : pods[n][i].phase = "none"}) :
          /\ pods' = [pods EXCEPT ![n] =
                        [i \in PodIdx |-> IF i \in S
                                          THEN [NoPod EXCEPT !.phase = "live"]
                                          ELSE pods[n][i]]]
          /\ loc' = [loc EXCEPT ![n].created = S,
                                ![n].failed = (0..(loc[n].nodes - 1)) \ S,
                                ![n].preexisting = {i \in 0..(loc[n].nodes - 1) :
                                                       pods[n][i].phase # "none"}]
    /\ Goto(n, "create_resolved")
    /\ UNCHANGED <<call, boot, active, faults, h2o, services, clusterLeader>>

\* Mutant: the rollback deletes nothing.
no_pods_rolled_back(l) == {}

\* Mutant: the rollback deletes every pod name of the deployment.
every_pod_rolled_back(l) == 0..(l.nodes - 1)

\* The pods create_pods rolls back when erroneous_pods_count > 0.
successfully_deployed_pods(l) == l.created

\* Mutant: the finalizer is added right after the pods were created.
CreatePodsReturnWithoutClustering(n) ==
    /\ At(n, "create_resolved")
    /\ Goto(n, "add_finalizer")
    /\ UNCHANGED <<call, boot, active, faults, h2o, pods, services, clusterLeader, loc>>

\* create_pods after the fan-out: roll back and return the errors, or return the pods.
CreatePodsReturn(n) ==
    /\ At(n, "create_resolved")
    /\ IF loc[n].failed # {}
       THEN \E D \in Accepted(successfully_deployed_pods(loc[n])) :
               \* D: the deletes the API server accepts; the others' errors are dropped
               /\ pods' = [pods EXCEPT ![n] =
                             [i \in PodIdx |-> IF i \in D /\ pods[n][i].phase = "live"
                                               THEN [pods[n][i] EXCEPT !.phase = "term"]
                                               ELSE pods[n][i]]]
               /\ loc' = [loc EXCEPT ![n].deleteIssued = successfully_deployed_pods(loc[n])]
               /\ on_create_pods_err(n)
       ELSE /\ Goto(n, "wait_pods_created")
            /\ UNCHANGED <<h2o, pods, services, clusterLeader, loc>>
    /\ UNCHANGED <<call, boot, active, faults>>

----------------------------------------------------------------------------
(* Create path: clustering::cluster_pods *)

pod_has_ip_check(p) == p.phase # "none" /\ p.ip

\* Mutant: the wait for the pods ends with the first pod that has an IP.
expected_reached_any(discovered, expected_count) == TRUE

\* Mutant: a polling round passes whatever the pods answer.
all_pods_apis_ready_unchecked(n, D) == TRUE

expected_reached(discovered, expected_count) == Cardinality(discovered) = expected_count

\* wait_pod_status: one Applied (or Restarted) event of the watcher on app=n.  A
\* pod passing the check is put into discovered_pods under its name.
WaitPodsCreated(n, i) ==
    /\ At(n, "wait_pods_created")
    /\ pod_has_ip_check(pods[n][i])
    /\ i \notin loc[n].discovered
    /\ LET discovered == loc[n].discovered \cup {i}
       IN  /\ loc' = [loc EXCEPT ![n].discovered = discovered]
           /\ IF expected_reached(discovered, loc[n].nodes)
              THEN Goto(n, "api_online")
              ELSE UNCHANGED <<pc, result, process>>
    /\ UNCHANGED <<call, boot, active, faults, h2o, pods, services, clusterLeader>>

\* The status a pod answers GET /cluster/status with (0: the request fails).
cluster_status(p) ==
    IF p.phase = "none" \/ p.api = "off" THEN 0
    ELSE IF p.api = "clustered" THEN 200
    ELSE 204

all_pods_apis_ready(n, D) == \A i \in D : cluster_status(pods[n][i]) = 204

\* wait_clustering_api_online: the polling round that ends the loop.
ApiOnline(n) ==
    /\ At(n, "api_online")
    /\ all_pods_apis_ready(n, loc[n].discovered)
    /\ Goto(n, "send_flatfile")
    /\ UNCHANGED <<call, boot, active, faults, h2o, pods, services, clusterLeader, loc>>

\* send_flatfile: POST the flatfile to every pod.  A failed request panics in
\* result.unwrap(); a status other than 200 only makes the returned bool false,
\* and cluster_pods drops that bool.
SendFlatfile(n) ==
    /\ At(n, "send_flatfile")
    /\ LET D == loc[n].discovered
           flatfile == create_flatfile(D)
       IN  \E ok \in Outcomes :
              IF ~ok \/ \E i \in D : cluster_status(pods[n][i]) = 0
              THEN /\ Panic(n)
                   /\ UNCHANGED pods
              ELSE \E A \in Accepted(D) :
                      \* A: the pods that answer 200 and take the flatfile
                      /\ pods' = [pods EXCEPT ![n] =
                                    [i \in PodIdx |-> IF i \in A
                                                      THEN [pods[n][i] EXCEPT !.flat = flatfile]
                                                      ELSE pods[n][i]]]
                      /\ loc' = [loc EXCEPT ![n].flatOk = (A = D)]
                      /\ Goto(n, "wait_clustered")
    /\ UNCHANGED <<call, boot, active, faults, h2o, services, clusterLeader>>

\* wait_h2o_clustered under tokio::time::timeout(180 s): the polled pod
\* (pod_ips[0], any pod of the HashMap's order) answers 200 with the leader, or
\* the timeout elapses and unwrap() panics.
WaitClustered(n) ==
    /\ At(n, "wait_clustered")
    /\ \E p \in loc[n].discovered :
          IF cluster_status(pods[n][p]) = 200
          THEN /\ loc' = [loc EXCEPT ![n].leader = clusterLeader[n]]
               /\ Goto(n, "label_leader")
          ELSE Panic(n)
    /\ UNCHANGED <<call, boot, active, faults, h2o, pods, services, clusterLeader>>

\* Mutant: every pod of created_pods is taken for the leader.
leader_node_pod_any(D, leader) == D

\* The pods of created_pods whose status.podIP equals the leader node's IP.
leader_node_pod(D, leader) == {i \in D : PodIp(i) = leader[1]}

\* Insert h2o_leader_node_pod=<name>-leader into the found pod and patch it.
LabelLeader(n) ==
    /\ At(n, "label_leader")
    /\ LET found == leader_node_pod(loc[n].discovered, loc[n].leader)
       IN  \E ok \in Outcomes :
              IF found = {} \/ ~ok \/ \E i \in found : pods[n][i].phase = "none"
              THEN /\ Panic(n)
                   /\ UNCHANGED pods
              ELSE /\ pods' = [pods EXCEPT ![n] =
                                 [i \in PodIdx |-> IF i \in found
                                                   THEN [pods[n][i] EXCEPT !.leader = TRUE]
                                                   ELSE pods[n][i]]]
                   /\ Goto(n, "create_service")
                   /\ UNCHANGED loc
    /\ UNCHANGED <<call, boot, active, faults, h2o, services, clusterLeader>>

\* deployment::service::h2o_service(name, namespace, pod_label)
\* The template has type: ClusterIP and no clusterIP key, so the platform
\* allocates an address.
h2o_service(name, pod_label) ==
    [exists |-> TRUE, clusterIP |-> "allocated",
     selectorKey |-> LEADER_LABEL_KEY, selectorVal |-> pod_label]

\* deployment::service::create(client, namespace, name, "<name>-leader").unwrap()
CreateLeaderService(n) ==
    /\ At(n, "create_service")
    /\ \E ok \in Outcomes :
          IF services[n].exists \/ ~ok
          THEN /\ Panic(n)
               /\ UNCHANGED services
          ELSE /\ services' = [services EXCEPT ![n] = h2o_service(n, LeaderLabel(n))]
               /\ Goto(n, "add_finalizer")
               /\ UNCHANGED loc
    /\ UNCHANGED <<call, boot, active, faults, h2o, pods, clusterLeader>>

----------------------------------------------------------------------------
(* Create path: finalizer and status *)

\* deployment::finalizer::add_finalizer(..).await.unwrap()
AddFinalizer(n) ==
    /\ At(n, "add_finalizer")
    /\ \E ok \in Outcomes :
          IF ~h2o[n].exists \/ ~ok
          THEN /\ Panic(n)
               /\ UNCHANGED h2o
          ELSE /\ h2o' = [h2o EXCEPT ![n].finalizers = add_finalizer(@)]
               /\ Goto(n, "set_ready")
               /\ UNCHANGED loc
    /\ UNCHANGED <<call, boot, active, faults, pods, services, clusterLeader>>

\* deployment::crd::set_ready_condition(.., true).await.unwrap(); then
\* create_h2o_deployment returns Ok and reconcile returns Ok.
SetReady(n) ==
    /\ At(n, "set_ready")
    /\ \E ok \in Outcomes :
          IF ~h2o[n].exists \/ ~ok
          THEN /\ Panic(n)
               /\ UNCHANGED h2o
          ELSE /\ h2o' = [h2o EXCEPT ![n].status = ready_status(TRUE)]
               /\ Return(n, "Ok")
               /\ loc' = [loc EXCEPT ![n].established = TRUE]
    /\ UNCHANGED <<call, boot, active, faults, pods, services, clusterLeader>>

----------------------------------------------------------------------------
(* Delete path: delete_h2o_deployment *)

\* Mutant: the result of service::delete is dropped.
DeleteServiceBestEffort(n) ==
    /\ At(n, "delete_service")
    /\ \E ok \in Outcomes :
          services' = [services EXCEPT ![n] = IF ok THEN NoService ELSE @]
    /\ Goto(n, "delete_pods_label")
    /\ UNCHANGED <<call, boot, active, faults, h2o, pods, clusterLeader, loc>>

\* deployment::service::delete(client, namespace, name).await.unwrap()
DeleteService(n) ==
    /\ At(n, "delete_service")
    /\ \E ok \in Outcomes :
          IF ~services[n].exists \/ ~ok
          THEN /\ Panic(n)
               /\ UNCHANGED services
          ELSE /\ services' = [services EXCEPT ![n] = NoService]
               /\ Goto(n, "delete_pods_label")
               /\ UNCHANGED loc
    /\ UNCHANGED <<call, boot, active, faults, h2o, pods, clusterLeader>>

\* Mutant: delete_collection without the label selector.
DeletePodsUnlabelled(n) ==
    /\ At(n, "delete_pods_label")
    /\ \E ok \in Outcomes :
          pods' = [m \in Names |->
                     [i \in PodIdx |-> IF ok /\ pods[m][i].phase = "live"
                                       THEN [pods[m][i] EXCEPT !.phase = "term"]
                                       ELSE pods[m][i]]]
    /\ Goto(n, "wait_deleted_list")
    /\ UNCHANGED <<call, boot, active, faults, h2o, services, clusterLeader, loc>>

\* delete_pods_label: delete_collection on app=n; its result is dropped.
DeletePodsLabel(n) ==
    /\ At(n, "delete_pods_label")
    /\ \E ok \in Outcomes :
          pods' = [pods EXCEPT ![n] =
                     [i \in PodIdx |-> IF ok /\ pods[n][i].phase = "live"
                                       THEN [pods[n][i] EXCEPT !.phase = "term"]
                                       ELSE pods[n][i]]]
    /\ Goto(n, "wait_deleted_list")
    /\ UNCHANGED <<call, boot, active, faults, h2o, services, clusterLeader, loc>>

\* Mutant: the wait for the pods is skipped.
wait_pods_deleted_skipped(pod_count) == TRUE

\* wait_pods_deleted is over when the count of pods still awaited is zero.
wait_pods_deleted_done(pod_count) == pod_count = 0

\* wait_pods_deleted: pod_api.list(app=n).unwrap().items.len()
WaitDeletedList(n) ==
    /\ At(n, "wait_deleted_list")
    /\ \E ok \in Outcomes :
          IF ~ok
          THEN Panic(n)
          ELSE LET pod_count == Cardinality(PodsLabelled(n))
               IN  /\ loc' = [loc EXCEPT ![n].podCount = pod_count]
                   /\ IF wait_pods_deleted_done(pod_count)
                      THEN Goto(n, "remove_finalizer")
                      ELSE Goto(n, "wait_deleted_start")
    /\ UNCHANGED <<call, boot, active, faults, h2o, pods, services, clusterLeader>>

\* wait_pods_deleted: kube_runtime::watcher starts with its own list; Deleted
\* events are delivered for removals after it.
WaitDeletedWatch(n) ==
    /\ At(n, "wait_deleted_start")
    /\ loc' = [loc EXCEPT ![n].events = 0]
    /\ Goto(n, "wait_deleted_watch")
    /\ UNCHANGED <<call, boot, active, faults, h2o, pods, services, clusterLeader>>

\* wait_pods_deleted: one Event::Deleted taken from the stream.
WaitDeletedEvent(n) ==
    /\ At(n, "wait_deleted_watch")
    /\ loc[n].events > 0
    /\ LET pod_count == loc[n].podCount - 1
       IN  /\ loc' = [loc EXCEPT ![n].podCount = pod_count,
                                 ![n].events = IF wait_pods_deleted_done(pod_count)
                                               THEN 0 ELSE @ - 1]
           /\ IF wait_pods_deleted_done(pod_count)
              THEN Goto(n, "remove_finalizer")
              ELSE UNCHANGED <<pc, result, process>>
    /\ UNCHANGED <<call, boot, active, faults, h2o, pods, services, clusterLeader>>

\* deployment::finalizer::remove_finalizer(..).await?  and the Ok return.
RemoveFinalizer(n) ==
    /\ At(n, "remove_finalizer")
    /\ \E ok \in Outcomes :
          IF ~h2o[n].exists \/ ~ok
          THEN /\ Return(n, "KubeError")
               /\ UNCHANGED h2o
               /\ UNCHANGED loc
          ELSE /\ h2o' = [h2o EXCEPT ![n].finalizers = remove_finalizer(@)]
               /\ Return(n, "Ok")
               /\ loc' = [loc EXCEPT ![n].deleted = TRUE]
    /\ UNCHANGED <<call, boot, active, faults, pods, services, clusterLeader>>

----------------------------------------------------------------------------
(* main: what runs before controller::run *)

reconcilerVars == <<active, faults, h2o, pods, services, clusterLeader, pc, loc, result, process>>

\* crd::spec_versions: the names of all versions the CRD declares.
spec_versions(versions) == {v.name : v \in versions}

\* The names of the versions a CRD serves.
served_versions(versions) == {v.name : v \in {w \in versions : w.served}}

\* std::process::exit(code)
Exit(code) == boot' = [boot EXCEPT !.pc = "exited", !.exited = TRUE, !.code = code]

\* A panic in main: the process ends with Rust's exit code for a panic.
BootPanic == boot' = [boot EXCEPT !.pc = "exited", !.exited = TRUE, !.code = 101]

\* The comparison ensure_crd_created makes of the two HashSets.
versions_match(this, existing) ==
    this = existing /\ Cardinality(existing) = Cardinality(this)

\* ensure_crd_created, arm Ok(existing_crd) of crd::get_current.
EnsureCrdExisting ==
    /\ boot.main = "operator"
    /\ boot.pc = "start"
    /\ boot.crd.present
    /\ LET this_crd_supported_versions == spec_versions(construct_h2o_crd)
           existing_crd_supported_versions == spec_versions(boot.crd.versions)
       IN  IF versions_match(this_crd_supported_versions, existing_crd_supported_versions)
           THEN boot' = [boot EXCEPT !.pc = "run", !.found = TRUE, !.checked = TRUE]
           ELSE boot' = [boot EXCEPT !.pc = "exited", !.exited = TRUE, !.code = 1,
                                     !.found = TRUE]
    /\ UNCHANGED <<call, reconcilerVars>>

\* ensure_crd_created, arm Err(_) of crd::get_current (no CRD, or the request
\* failed): crd::create(..).await.unwrap().
EnsureCrdCreate ==
    /\ boot.main = "operator"
    /\ boot.pc = "start"
    /\ \E got \in Outcomes :
          /\ ~boot.crd.present \/ ~got
          /\ \E ok \in Outcomes :
                IF ok /\ ~boot.crd.present
                THEN boot' = [boot EXCEPT !.pc = "crd_watch",
                                          !.crd = [present |-> TRUE,
                                                   versions |-> construct_h2o_crd]]
                ELSE BootPanic
    /\ UNCHANGED <<call, reconcilerVars>>

\* kube::api::WatchEvent, with the status of NamesAccepted the object carries.
WatchEvent(type, status) == [type |-> type, status |-> status]

\* The platform accepts (or not yet) the names of a created CRD and writes the
\* condition NamesAccepted; an open watch gets a Modified event.
PlatformCrdCondition ==
    /\ boot.pc \in {"crd_watch", "crd_wait"}
    /\ boot.crd.present
    /\ boot.condition # "True"
    /\ \E status \in {"False", "True"} :
          /\ status # boot.condition
          /\ boot' = [boot EXCEPT !.condition = status,
                                  !.events = IF boot.pc = "crd_wait"
                                             THEN Append(@, WatchEvent("Modified", status))
                                             ELSE @]
    /\ UNCHANGED <<call, reconcilerVars>>

\* wait_crd_status: api.watch(&lp, "0").await? : the stream opens with an Added
\* event for the CRD as it is; a failed request is returned as the error.
WaitCrdWatch ==
    /\ boot.pc = "crd_watch"
    /\ \E ok \in Outcomes :
          IF ok
          THEN boot' = [boot EXCEPT !.pc = "crd_wait", !.watching = TRUE,
                                    !.events = <<WatchEvent("Added", boot.condition)>>]
          ELSE Exit(1)
    /\ UNCHANGED <<call, reconcilerVars>>

\* Mutant: any status of NamesAccepted is taken for readiness.
desired_crd_status_any(state, status) == status # ""

\* wait_crd_status: the match on the desired CRDReadiness.
desired_crd_status(state, status) ==
    IF state = "Ready" THEN status = "True" ELSE status = "False"

\* crd::wait_crd_status(.., 30 s, Ready): the next event of the stream is
\* taken, and a Modified event whose NamesAccepted has the desired status ends
\* the wait with Ok; or the stream ends (the timeout of the watch) or fails,
\* and ensure_crd_created exits.
WaitCrdStatus ==
    /\ boot.pc = "crd_wait"
    /\ \E ended \in BOOLEAN :
          IF ended
          THEN Exit(1)
          ELSE /\ boot.events # <<>>
               /\ LET status == Head(boot.events)
                  IN  IF /\ status.type = "Modified"
                         /\ status.status # ""
                         /\ desired_crd_status("Ready", status.status)
                      THEN boot' = [boot EXCEPT !.pc = "run", !.checked = TRUE,
                                                !.events = Tail(@),
                                                !.observed = status.status]
                      ELSE boot' = [boot EXCEPT !.events = Tail(@)]
    /\ UNCHANGED <<call, reconcilerVars>>

\* create_mandatory_resources: the environment variable and the file it names.
ClusteringJarPath ==
    /\ boot.main = "root"
    /\ boot.pc = "start"
    /\ IF boot.env = "file"
       THEN boot' = [boot EXCEPT !.pc = "configmap_exists"]
       ELSE BootPanic
    /\ UNCHANGED <<call, reconcilerVars>>

\* create_mandatory_resources: an existing ConfigMap is deleted first.
\* configmap::exists is api.get(..).is_ok(): a failed request reads as absent.
ConfigMapDelete ==
    /\ boot.pc = "configmap_exists"
    /\ \E got \in Outcomes :
          IF boot.configmap /\ got
          THEN \E ok \in Outcomes :
                  IF ok
                  THEN boot' = [boot EXCEPT !.pc = "configmap_create",
                                            !.configmap = FALSE,
                                            !.binary_data = {},
                                            !.replaced = TRUE]
                  ELSE BootPanic
          ELSE boot' = [boot EXCEPT !.pc = "configmap_create"]
    /\ UNCHANGED <<call, reconcilerVars>>

\* Mutant: the ConfigMap is created without data.
clustering_configmap_empty(bytes) == {}

\* The binary_data of the ConfigMap create_clustering_configmap builds.
clustering_configmap(bytes) == {<<H2O_CLUSTERING_JAR_FILE_NAME, bytes>>}

\* create_mandatory_resources: configmap::create_clustering_configmap.
ConfigMapCreate ==
    /\ boot.pc = "configmap_create"
    /\ \E read \in Outcomes :
          IF ~read
          THEN BootPanic
          ELSE \E ok \in Outcomes :
                  IF ok /\ ~boot.configmap
                  THEN boot' = [boot EXCEPT !.pc = "run", !.configmap = TRUE,
                                            !.seeded = TRUE,
                                            !.binary_data = clustering_configmap(boot.file)]
                  ELSE Exit(1)
    /\ UNCHANGED <<call, reconcilerVars>>

\* controller::run(client, &namespace)
ControllerRun ==
    /\ boot.pc = "run"
    /\ boot' = [boot EXCEPT !.pc = "controller"]
    /\ UNCHANGED <<call, reconcilerVars>>

BootNext ==
    \/ EnsureCrdExisting
    \/ EnsureCrdCreate
    \/ PlatformCrdCondition
    \/ WaitCrdWatch
    \/ WaitCrdStatus
    \/ ClusteringJarPath
    \/ ConfigMapDelete
    \/ ConfigMapCreate
    \/ ControllerRun

BootSpec == BootInit /\ [][BootNext]_vars

----------------------------------------------------------------------------
(* Calls of the pure functions on inputs of their domains *)

\* Finalizer tokens a resource may carry: the operator's, the deployment
\* crate's and one of the platform.
FinalizerTokens == {FINALIZER_NAME, "h2o3.h2o.ai", "foregroundDeletion"}

\* The resources a finalizer patch may meet.
FinalizerInputs ==
    {[NoH2O EXCEPT !.exists = e, !.finalizers = f, !.deletionTimestamp = d, !.status = st,
                   !.nodes = k] :
        e \in BOOLEAN, f \in SUBSET FinalizerTokens, d \in BOOLEAN,
        st \in {NoStatus, ready_status(TRUE)}, k \in 1..MaxNodes}

\* h2o_api.patch(name, ..): the resource after the patch; a resource that is
\* not there stays absent (the request returns an error).
patch_finalizer(op, r) ==
    IF ~r.exists THEN r
    ELSE IF op = "add_finalizer" THEN [r EXCEPT !.finalizers = add_finalizer(@)]
    ELSE [r EXCEPT !.finalizers = remove_finalizer(@)]

\* add_finalizer or remove_finalizer applied once and twice to a resource.
CallFinalizer ==
    /\ call = NoCall
    /\ \E op \in {"add_finalizer", "remove_finalizer"}, r \in FinalizerInputs :
          call' = [fn |-> op, arg |-> r,
                   out |-> <<patch_finalizer(op, r),
                             patch_finalizer(op, patch_finalizer(op, r))>>]
    /\ UNCHANGED <<boot, reconcilerVars>>

\* H2O_RESOURCE_TEMPLATE, spec.properties.resources.properties.memory.pattern:
\* ^([+-]?[0-9.]+)([eEinumkKMGTP]*[-+]?[0-9]*)$ on a string given as the
\* sequence of its characters.
PatternSigns == {"+", "-"}
PatternDigits == {"0", "1", "2", "3", "4", "5", "6", "7", "8", "9"}
PatternUnits == {"e", "E", "i", "n", "u", "m", "k", "K", "M", "G", "T", "P"}

AllIn(m, lo, hi, S) == \A x \in lo..hi : m[x] \in S

memory_pattern(m) ==
    \E i \in 0..1, j \in 1..Len(m), k \in 0..Len(m), l \in 0..1 :
        /\ i + 1 <= j /\ j <= k /\ k + l <= Len(m)
        /\ AllIn(m, 1, i, PatternSigns)
        /\ AllIn(m, i + 1, j, PatternDigits \cup {"."})
        /\ AllIn(m, j + 1, k, PatternUnits)
        /\ AllIn(m, k + 1, k + l, PatternSigns)
        /\ AllIn(m, k + l + 1, Len(m), PatternDigits)

\* Memory strings a spec may carry: 4Gi, Gi and 4GB.
MemoryStrings == {<<"4", "G", "i">>, <<"G", "i">>, <<"4", "G", "B">>}

\* Properties a submitted spec may hold besides nodes and resources.
OptionalKeys == {"version", "customImage", "custom_image"}

\* The spec objects put to the schema: the keys they hold and the values of
\* nodes, resources.cpu and resources.memory.
SubmittedSpecs ==
    {[keys |-> {"nodes", "resources"} \cup K, nodes |-> nd, cpu |-> c, memory |-> m] :
        K \in SUBSET OptionalKeys, nd \in 0..MaxNodes, c \in 0..MaxNodes, m \in MemoryStrings}

\* oneOf: exactly one of the listed subschemas holds; each is required: [key].
oneOf_required(keys, alternatives) ==
    Cardinality({a \in alternatives : a \in keys}) = 1

\* H2O_RESOURCE_TEMPLATE, versions[0].schema.openAPIV3Schema.properties.spec:
\* nodes is an integer without a minimum, resources.cpu has minimum 1,
\* resources.memory the pattern, oneOf names version and custom_image, and
\* nodes and resources are required.
schema_admits(s) ==
    /\ {"nodes", "resources"} \subseteq s.keys
    /\ s.nodes \in Int
    /\ s.cpu >= 1
    /\ memory_pattern(s.memory)
    /\ oneOf_required(s.keys, {"version", "custom_image"})

\* The API server validates a submitted H2O resource against the schema.
CallAdmission ==
    /\ call = NoCall
    /\ \E s \in SubmittedSpecs :
          call' = [fn |-> "schema_admits", arg |-> s, out |-> schema_admits(s)]
    /\ UNCHANGED <<boot, reconcilerVars>>

\* A string put after "command: " in the pod's YAML reads as a flow sequence
\* of items when it is written as one, and as a plain scalar otherwise.
FlowSequence(items) == [yaml |-> "sequence", value |-> items]
Scalar(text) == [yaml |-> "scalar", value |-> text]

\* create_pods, the command for the official image: format!(.., memory_percentage)
launch_command(memory_percentage) ==
    FlowSequence(<<"/bin/bash", "-c",
                   <<"java -XX:+UseContainerSupport -XX:MaxRAMPercentage=", memory_percentage,
                     " -cp /opt/h2oai/h2o-3/h2o.jar:/opt/h2o-clustering/h2o-clustering.jar water.H2OApp">> >>)

\* Option::unwrap_or
unwrap_or(option, default) == IF option = None THEN default ELSE option[1]

\* h2o_pod: the template with image and command line filled in, read back by
\* serde_yaml::from_str into a Pod.  A container's command is a list of strings:
\* a command line that reads as a scalar is an error.
h2o_pod(docker_image, command) ==
    IF command = None
    THEN [ok |-> TRUE, image |-> docker_image, command |-> None]
    ELSE IF command[1].yaml = "sequence"
    THEN [ok |-> TRUE, image |-> docker_image, command |-> Some(command[1].value)]
    ELSE [ok |-> FALSE, image |-> "", command |-> None]

\* create_pods, the choice of image and command: the custom image has the
\* priority, then the version; with neither the function returns a UserError.
resolve_image(h2o_spec) ==
    IF h2o_spec.custom_image # None
    THEN [ok |-> TRUE,
          docker_image |-> h2o_spec.custom_image[1].image,
          command |-> h2o_spec.custom_image[1].command]
    ELSE IF h2o_spec.version # None
    THEN [ok |-> TRUE,
          docker_image |-> <<"h2oai/h2o-open-source-k8s:", h2o_spec.version[1]>>,
          command |-> Some(launch_command(unwrap_or(h2o_spec.memory_percentage, 50)))]
    ELSE [ok |-> FALSE, docker_image |-> "", command |-> None]

\* create_pods up to the pods it hands to the API: the container every pod of
\* the cluster gets, a UserError, or the panic of h2o_pod(..).unwrap().
rendered_container(h2o_spec) ==
    LET r == resolve_image(h2o_spec)
        pod == h2o_pod(r.docker_image, r.command)
    IN  IF ~r.ok THEN [kind |-> "UserError", image |-> "", command |-> None]
        ELSE IF ~pod.ok THEN [kind |-> "Panic", image |-> "", command |-> None]
        ELSE [kind |-> "Pod", image |-> pod.image, command |-> pod.command]

\* The custom images, versions and memory percentages of the specs rendered.
CustomImages ==
    {[image |-> "example/x:1", command |-> c] :
        c \in {None, Some(Scalar("/bin/sleep 3600")),
               Some(FlowSequence(<<"/bin/sleep", "3600">>))}}

ImageSpecs ==
    {[version |-> v, custom_image |-> ci, memory_percentage |-> mp] :
        v \in {None, Some("latest"), Some("3.32.0.1")},
        ci \in {None} \cup {Some(c) : c \in CustomImages},
        mp \in {None, Some(1), Some(80), Some(100)}}

CallCreatePods ==
    /\ call = NoCall
    /\ \E h2o_spec \in ImageSpecs :
          call' = [fn |-> "create_pods", arg |-> h2o_spec, out |-> rendered_container(h2o_spec)]
    /\ UNCHANGED <<boot, reconcilerVars>>

\* The versions of the pods under the watched label an event may carry: the
\* pod's index in its name, whether status.podIP is set, and a resource version.
WatchedPods == [name : PodIdx, ip : BOOLEAN, version : 1..2]

\* Lists of pods a Restarted event may carry: no two pods of the same name.
RestartedLists ==
    {<<>>} \cup {<<p>> : p \in WatchedPods}
           \cup {l \in {<<p, q>> : p \in WatchedPods, q \in WatchedPods} : l[1].name # l[2].name}

\* kube_runtime::watcher::Event
Applied(pod) == [event |-> "Applied", pods |-> <<pod>>]
Restarted(listed) == [event |-> "Restarted", pods |-> listed]
WatcherEvents == {Applied(p) : p \in WatchedPods} \cup {Restarted(l) : l \in RestartedLists}

\* The check cluster_pods hands to wait_pods_created, on a watched pod.
pod_status_check(pod) == pod.ip

\* Mutant: the map keeps an entry per version of a pod.
insert_per_version(discovered_pods, pod) == discovered_pods \cup {<<pod.name, pod>>}

\* HashMap::insert(pod.name(), pod): the map as the set of its entries.
insert(discovered_pods, pod) ==
    {e \in discovered_pods : e[1] # pod.name} \cup {<<pod.name, pod>>}

\* wait_pod_status, the body both event arms run for the pods of an event, in
\* order: a pod passing the check is inserted, and the loop is left once the
\* map holds expected_count entries.
RECURSIVE podloop(_, _, _)
podloop(w, listed, expected_count) ==
    IF w.done \/ listed = <<>> THEN w
    ELSE LET pod == Head(listed)
             discovered == IF pod_status_check(pod) THEN insert(w.discovered_pods, pod)
                           ELSE w.discovered_pods
             done == pod_status_check(pod) /\ Cardinality(discovered) = expected_count
         IN  podloop([discovered_pods |-> discovered, done |-> done,
                      passed |-> w.passed \cup (IF pod_status_check(pod) THEN {pod.name} ELSE {}),
                      events |-> w.events],
                     Tail(listed), expected_count)

\* wait_pod_status is called: the watcher is started and the map is empty.
\* passed is history: the names of the pods that passed the check so far.
CallWaitPodStatus ==
    /\ call = NoCall
    /\ \E expected_count \in 1..MaxNodes :
          call' = [fn |-> "wait_pod_status", arg |-> expected_count,
                   out |-> [discovered_pods |-> {}, done |-> FALSE, passed |-> {}, events |-> 0]]
    /\ UNCHANGED <<boot, reconcilerVars>>

\* wait_pod_status takes the next event from the stream.
WaitPodStatusEvent ==
    /\ call.fn = "wait_pod_status"
    /\ ~call.out.done
    /\ call.out.events < MaxEvents
    /\ \E e \in WatcherEvents :
          call' = [call EXCEPT !.out = podloop([call.out EXCEPT !.events = @ + 1],
                                               e.pods, call.arg)]
    /\ UNCHANGED <<boot, reconcilerVars>>

\* The Vec<Pod> wait_pod_status returns: the values of the map.
returned_pods(discovered_pods) == {e[2] : e \in discovered_pods}

\* Strings as the sequences of their characters.
DecimalDigits == <<"0", "1", "2", "3", "4", "5", "6", "7", "8", "9">>

\* u8::to_string and u16::to_string
RECURSIVE to_string(_)
to_string(number) ==
    IF number < 10 THEN <<DecimalDigits[number + 1]>>
    ELSE Append(to_string(number \div 10), DecimalDigits[(number % 10) + 1])

\* Mutant: a separator is put after every piece, the last one included.
RECURSIVE join_trailing(_, _)
join_trailing(pieces, separator) ==
    IF pieces = <<>> THEN <<>>
    ELSE Head(pieces) \o separator \o join_trailing(Tail(pieces), separator)

\* [String]::join(separator)
RECURSIVE join(_, _)
join(pieces, separator) ==
    IF pieces = <<>> THEN <<>>
    ELSE IF Len(pieces) = 1 THEN Head(pieces)
    ELSE Head(pieces) \o separator \o join(Tail(pieces), separator)

\* The address of pod i as an Ipv4Addr: 10.0.0.<PodIp(i)>.
PodIpAddr(i) == <<10, 0, 0, PodIp(i)>>

\* Ipv4Addr::to_string: the octets in decimal, joined by dots.
ip_to_string(octets) == join([k \in 1..Len(octets) |-> to_string(octets[k])], <<".">>)

\* SocketAddr::to_string for an IPv4 address: <ip>:<port>
socket_addr_to_string(octets, port) == ip_to_string(octets) \o <<":">> \o to_string(port)

\* create_flatfile on the Vec of pod addresses, as the string it returns.
create_flatfile_string(pod_ips) ==
    join([k \in 1..Len(pod_ips) |-> socket_addr_to_string(pod_ips[k], H2O_DEFAULT_PORT)],
         <<"\n">>)

\* send_flatfile: the POST requests it makes, one per pod address, each with a
\* clone of the one flatfile.
send_flatfile_requests(pod_ips) ==
    LET flatfile == create_flatfile_string(pod_ips)
    IN  [k \in 1..Len(pod_ips) |-> [to |-> pod_ips[k], body |-> flatfile]]

\* The Vecs of pod addresses cluster_pods may hold: the addresses of one or
\* more distinct pods in any order.
PodIpVecs ==
    {v \in UNION {[1..len -> {PodIpAddr(i) : i \in PodIdx}] : len \in 1..MaxNodes} :
        \A j, k \in 1..Len(v) : j # k => v[j] # v[k]}

CallSendFlatfile ==
    /\ call = NoCall
    /\ \E pod_ips \in PodIpVecs :
          call' = [fn |-> "send_flatfile", arg |-> pod_ips, out |-> send_flatfile_requests(pod_ips)]
    /\ UNCHANGED <<boot, reconcilerVars>>

\* The services a creation under the name n may meet: none, the leader
\* service of an earlier Create, or a headless service of that name.
ExistingServices(n) ==
    {NoService, h2o_service(n, LeaderLabel(n)),
     [exists |-> TRUE, clusterIP |-> "None", selectorKey |-> "app", selectorVal |-> n]}

\* deployment::service::create: service_api.create(&PostParams::default(), ..)
\* is a POST; the platform answers a POST for a name in use with 409 Conflict,
\* and create returns the error.  accepted: the request is not rejected otherwise.
service_create(existing, name, pod_label, accepted) ==
    IF existing.exists \/ ~accepted
    THEN [result |-> "Err", service |-> existing]
    ELSE [result |-> "Ok", service |-> h2o_service(name, pod_label)]

\* cluster_pods: deployment::service::create(..).await.unwrap()
CallServiceCreate ==
    /\ call = NoCall
    /\ \E n \in Names, accepted \in BOOLEAN :
          \E existing \in ExistingServices(n) :
             LET created == service_create(existing, n, LeaderLabel(n), accepted)
             IN  call' = [fn |-> "service_create",
                          arg |-> [name |-> n, existing |-> existing, accepted |-> accepted],
                          out |-> [created EXCEPT !.result =
                                      IF @ = "Err" THEN "Panic" ELSE @]]
    /\ UNCHANGED <<boot, reconcilerVars>>

PureInit ==
    /\ boot = Booted
    /\ active = {"t1"}
    /\ faults = TRUE
    /\ EnvInit

PureNext ==
    \/ CallFinalizer
    \/ CallAdmission
    \/ CallCreatePods
    \/ CallSendFlatfile
    \/ CallServiceCreate
    \/ CallWaitPodStatus
    \/ WaitPodStatusEvent

PureSpec == PureInit /\ [][PureNext]_vars

----------------------------------------------------------------------------
(* What reconcile hands back to the controller *)

\* Option<Duration>, in seconds.

\* The ReconcilerAction create_h2o_deployment / delete_h2o_deployment return on
\* success; Verify has none.
inner_requeue_after(action) ==
    CASE action = "Create" -> Some(10)
      [] action = "Delete" -> None
      [] OTHER -> None

\* reconcile applies '?' to the inner result, drops its value and builds its own
\* ReconcilerAction.
reconcile_requeue_after(action) ==
    LET dropped == inner_requeue_after(action)
    IN  Some(5)

error_policy_requeue_after == Some(5)

ErrorResults == {"DeploymentError", "KubeError"}

\* The requeue hint the controller holds for n after the last reconcile; a
\* reconcile that died with the process handed back nothing.
RequeueAfter(n) ==
    IF result[n] = "Ok" THEN reconcile_requeue_after(loc[n].action)
    ELSE IF result[n] \in ErrorResults THEN error_policy_requeue_after
    ELSE None

\* The errors create_pods returns: the UserError of the image resolution, or one
\* kube error per failed creation.
pod_creation_errors(l) ==
    IF ~image_resolves(l) THEN {"UserError"}
    ELSE IF l.failed # {} THEN {"KubeError"}
    ELSE {}

\* create_h2o_pods logs the errors and returns Err(()).
create_h2o_pods_result(errors) == IF errors = {} THEN "Ok" ELSE "Err"

\* Error::DeploymentError("".to_owned()): the message built in the Err(_) arm.
deployment_error_message(create_pods_result) == ""

\* The message of the error the last reconcile of n returned.
SurfacedMessage(n) ==
    deployment_error_message(create_h2o_pods_result(pod_creation_errors(loc[n])))

----------------------------------------------------------------------------
Next ==
    \/ \E n \in Names : UserCreate(n)
    \/ \E n \in Names : UserDelete(n)
    \/ \E n \in Names : PlatformCollect(n)
    \/ \E n \in Names, i \in PodIdx : PlatformAssignIp(n, i)
    \/ \E n \in Names, i \in PodIdx : PodApiOnline(n, i)
    \/ \E n \in Names : H2OFormCluster(n)
    \/ \E n \in Names, i \in PodIdx : PlatformRemovePod(n, i)
    \/ Restart
    \/ \E n \in Names : Reconcile(n)
    \/ \E n \in Names : Verify(n)
    \/ \E n \in Names : CreatePodsNoImage(n)
    \/ \E n \in Names : CreatePods(n)
    \/ \E n \in Names : CreatePodsReturn(n)
    \/ \E n \in Names, i \in PodIdx : WaitPodsCreated(n, i)
    \/ \E n \in Names : ApiOnline(n)
    \/ \E n \in Names : SendFlatfile(n)
    \/ \E n \in Names : WaitClustered(n)
    \/ \E n \in Names : LabelLeader(n)
    \/ \E n \in Names : CreateLeaderService(n)
    \/ \E n \in Names : AddFinalizer(n)
    \/ \E n \in Names : SetReady(n)
    \/ \E n \in Names : DeleteService(n)
    \/ \E n \in Names : DeletePodsLabel(n)
    \/ \E n \in Names : WaitDeletedList(n)
    \/ \E n \in Names : WaitDeletedWatch(n)
    \/ \E n \in Names : WaitDeletedEvent(n)
    \/ \E n \in Names : RemoveFinalizer(n)

Spec == Init /\ [][Next]_vars

\* The scheduling the runtime and the platform guarantee on the Delete path:
\* a requeued resource is reconciled again, a crashed operator is restarted,
\* every step of delete_h2o_deployment that can be taken eventually is, a pod
\* whose deletion was issued is eventually removed, and a resource without
\* finalizers that is marked for deletion is eventually collected.
DeleteFairness ==
    /\ WF_vars(Restart)
    /\ \A n \in Names :
          /\ WF_vars(Reconcile(n))
          /\ WF_vars(DeleteService(n))
          /\ WF_vars(DeletePodsLabel(n))
          /\ WF_vars(WaitDeletedList(n))
          /\ WF_vars(WaitDeletedWatch(n))
          /\ WF_vars(WaitDeletedEvent(n))
          /\ WF_vars(RemoveFinalizer(n))
          /\ WF_vars(PlatformCollect(n))
          /\ \A i \in PodIdx : WF_vars(PlatformRemovePod(n, i))

\* Fair scheduling on a platform that rejects no request that could succeed.
LiveSpec == InitNoFaults /\ [][Next]_vars /\ DeleteFairness

\* The controller with a resource of every name: reconciles of distinct names
\* run concurrently, at most one per name.  Every cluster has one node and no
\* request that could succeed is rejected.
IsoInit ==
    /\ boot = Booted
    /\ active = Names
    /\ faults = FALSE
    /\ EnvInit

SingleNodes == \A n \in Names : h2o[n].exists => h2o[n].nodes = 1

IsoNext ==
    \/ \E n \in Names : UserCreate(n) /\ SingleNodes'
    \/ \E n \in Names : UserDelete(n)
    \/ \E n \in Names : PlatformCollect(n)
    \/ \E n \in Names, i \in PodIdx : PlatformAssignIp(n, i)
    \/ \E n \in Names, i \in PodIdx : PodApiOnline(n, i)
    \/ \E n \in Names : H2OFormCluster(n)
    \/ \E n \in Names, i \in PodIdx : PlatformRemovePod(n, i)
    \/ Restart
    \/ \E n \in Names : Reconcile(n)
    \/ \E n \in Names : Verify(n)
    \/ \E n \in Names : CreatePodsNoImage(n)
    \/ \E n \in Names : CreatePods(n)
    \/ \E n \in Names : CreatePodsReturn(n)
    \/ \E n \in Names, i \in PodIdx : WaitPodsCreated(n, i)
    \/ \E n \in Names : ApiOnline(n)
    \/ \E n \in Names : SendFlatfile(n)
    \/ \E n \in Names : WaitClustered(n)
    \/ \E n \in Names : LabelLeader(n)
    \/ \E n \in Names : CreateLeaderService(n)
    \/ \E n \in Names : AddFinalizer(n)
    \/ \E n \in Names : SetReady(n)
    \/ \E n \in Names : DeleteService(n)
    \/ \E n \in Names : DeletePodsLabel(n)
    \/ \E n \in Names : WaitDeletedList(n)
    \/ \E n \in Names : WaitDeletedWatch(n)
    \/ \E n \in Names : WaitDeletedEvent(n)
    \/ \E n \in Names : RemoveFinalizer(n)

IsoSpec == IsoInit /\ [][IsoNext]_vars

----------------------------------------------------------------------------
(* Claims *)

\* The last reconcile of n has returned to the controller (it did not die with the process).
Returned(n) == pc[n] = "idle" /\ result[n] \in {"Ok", "DeploymentError", "KubeError"}

\* C1: whenever reconcile routes an observed resource, the action is Create
\* exactly when the finalizer is absent and no deletion timestamp is set, Delete
\* exactly when both are present, and Verify in the two remaining cases.
C1_EventClassification ==
    [][\A n \in Names :
          (pc[n] = "idle" /\ pc'[n] # "idle") =>
             LET f == FINALIZER_NAME \in h2o[n].finalizers
                 d == h2o[n].deletionTimestamp
             IN  /\ loc'[n].action \in {"Create", "Delete", "Verify"}
                 /\ (loc'[n].action = "Create") <=> (~f /\ ~d)
                 /\ (loc'[n].action = "Delete") <=> (f /\ d)
                 /\ (loc'[n].action = "Verify") <=> ((f /\ ~d) \/ (~f /\ d))
                 /\ (pc'[n] = "create_pods") <=> (loc'[n].action = "Create")
                 /\ (pc'[n] = "delete_service") <=> (loc'[n].action = "Delete")
                 /\ (pc'[n] = "verify") <=> (loc'[n].action = "Verify")]_vars

\* A resource with finalizer and deletion timestamp has been routed to Delete.
C1_Witness ==
    \E n \in Names :
        /\ pc[n] = "delete_service"
        /\ FINALIZER_NAME \in h2o[n].finalizers
        /\ h2o[n].deletionTimestamp

C3_VerifyNoAction ==
    [][\A n \in Names :
          (\/ pc[n] = "idle" /\ pc'[n] = "verify"
           \/ pc[n] = "verify" /\ pc'[n] # "verify") =>
             /\ pods' = pods
             /\ services' = services
             /\ h2o' = h2o
             /\ process' = "running" => (pc'[n] = "verify" \/ result'[n] = "Ok")]_vars

\* A Verify reconcile has returned for a resource marked for deletion that
\* carries no finalizer.
C3_Witness ==
    \E n \in Names :
        /\ Returned(n)
        /\ loc[n].action = "Verify"
        /\ h2o[n].exists
        /\ h2o[n].deletionTimestamp
        /\ FINALIZER_NAME \notin h2o[n].finalizers

\* C4: once a deletion timestamp is on a resource that carries the finalizer,
\* the finalizer is eventually removed and the resource collected.
C4_DeletionCompletes ==
    \A n \in Names :
        (h2o[n].exists /\ h2o[n].deletionTimestamp /\ FINALIZER_NAME \in h2o[n].finalizers)
            ~> ~h2o[n].exists

\* C5: after a Delete reconcile has returned, the resource's status does not
\* hold Ready=true and the finalizer is absent.
C5_AfterDeleteNotReadyNoFinalizer ==
    \A n \in Names :
        (Returned(n) /\ loc[n].action = "Delete" /\ h2o[n].exists) =>
            /\ ~is_ready(h2o[n])
            /\ FINALIZER_NAME \notin h2o[n].finalizers

\* C6: when at least one pod creation failed, then once create has returned a
\* delete has been issued for every pod created in this invocation and the
\* caller got the errors, not pods.
C6_PodFleetRollback ==
    \A n \in Names :
        (Returned(n) /\ loc[n].action = "Create" /\ loc[n].failed # {}) =>
            /\ loc[n].deleteIssued = loc[n].created
            /\ result[n] = "DeploymentError"
            /\ loc[n].discovered = {}

\* A create that made one pod, failed on another and rolled the first one back.
C6_Witness ==
    \E n \in Names :
        /\ Returned(n)
        /\ loc[n].action = "Create"
        /\ loc[n].failed # {}
        /\ loc[n].created # {}
        /\ loc[n].deleteIssued = loc[n].created
        /\ \E i \in loc[n].created : pods[n][i].phase = "term"

\* C7: when pod creation fails in the Create path, reconcile returns a
\* DeploymentError, the finalizer is not added, assisted clustering is not
\* started and the status is not set to Running / Ready=true.
C7_CreateFailurePropagates ==
    \A n \in Names :
        (/\ Returned(n)
         /\ loc[n].action = "Create"
         /\ (loc[n].failed # {} \/ ~loc[n].image)) =>
            /\ result[n] = "DeploymentError"
            /\ loc[n].discovered = {}
            /\ loc[n].at = ""
            /\ h2o[n].exists => /\ FINALIZER_NAME \notin h2o[n].finalizers
                                /\ h2o[n].status = NoStatus

\* A Create reconcile has returned the DeploymentError for a resource that is
\* still there.
C7_Witness ==
    \E n \in Names :
        /\ Returned(n)
        /\ loc[n].action = "Create"
        /\ loc[n].failed # {}
        /\ result[n] = "DeploymentError"
        /\ h2o[n].exists

\* C8: a Create reconcile that failed during cluster formation, after its pods
\* were created, leaves none of these pods behind: each is deleted or being
\* deleted.
C8_ClusteringFailureCompensates ==
    \A n \in Names :
        (/\ pc[n] = "idle"
         /\ loc[n].action = "Create"
         /\ result[n] = "Panic"
         /\ loc[n].at \in {"send_flatfile", "wait_clustered", "label_leader", "create_service"}) =>
            \A i \in loc[n].created : pods[n][i].phase # "live"

CreatedPcs == {"wait_pods_created", "api_online", "send_flatfile", "wait_clustered",
               "label_leader", "create_service", "add_finalizer", "set_ready"}

\* C9: once create has returned the pods of cluster n with spec.nodes = k, it
\* returned exactly k pods and exactly the k pods n-0 .. n-(k-1) carry app=n.
C9_ExactlyNodesPods ==
    \A n \in Names :
        (pc[n] \in CreatedPcs) =>
            /\ Cardinality(loc[n].created) = loc[n].nodes
            /\ PodsLabelled(n) = 0..(loc[n].nodes - 1)

Clustered(n) ==
    \/ pc[n] \in {"add_finalizer", "set_ready"}
    \/ Returned(n) /\ loc[n].action = "Create" /\ result[n] = "Ok"

\* C10: once cluster n is clustered, exactly one pod carries
\* h2o_leader_node_pod=n-leader, it is the pod whose IP is the IP of the
\* leader_node /cluster/status reported, and the leader service exists and
\* selects on this label.
C10_OneLeader ==
    \A n \in Names :
        Clustered(n) =>
            /\ Cardinality(LeaderPods(n)) = 1
            /\ \A i \in LeaderPods(n) : PodIp(i) = loc[n].leader[1]
            /\ loc[n].leader = clusterLeader[n]
            /\ services[n].exists
            /\ services[n].selectorKey = LEADER_LABEL_KEY
            /\ services[n].selectorVal = LeaderLabel(n)

\* A cluster of two pods is clustered and its second pod was elected.
C10_Witness ==
    \E n \in Names :
        /\ Clustered(n)
        /\ loc[n].nodes = 2
        /\ LeaderPods(n) = {1}

PastSendFlatfile == {"wait_clustered", "label_leader", "create_service",
                     "add_finalizer", "set_ready"}

\* C11: the finalizer is put on resource n only by a Create reconcile whose
\* clustering has completed (a leader was reported, a pod carries the leader
\* label, the leader service exists), and Ready=true is written only by a
\* Create reconcile of a resource that already carries the finalizer.
C11_CreateOrdering ==
    [][\A n \in Names :
          /\ (/\ FINALIZER_NAME \notin h2o[n].finalizers
              /\ FINALIZER_NAME \in h2o'[n].finalizers) =>
                /\ loc[n].action = "Create"
                /\ pc[n] = "add_finalizer"
                /\ loc[n].leader # NoAddr
                /\ LeaderPods(n) # {}
                /\ services[n].exists
          /\ (~is_ready(h2o[n]) /\ is_ready(h2o'[n])) =>
                /\ loc[n].action = "Create"
                /\ pc[n] = "set_ready"
                /\ loc[n].leader # NoAddr
                /\ FINALIZER_NAME \in h2o[n].finalizers]_vars

\* A Create reconcile of a two-node cluster has returned Ok with the finalizer
\* on the resource and Ready=true in its status; the first pod leads.
C11_Witness ==
    \E n \in Names :
        /\ Returned(n)
        /\ loc[n].action = "Create"
        /\ result[n] = "Ok"
        /\ loc[n].nodes = 2
        /\ LeaderPods(n) = {0}
        /\ FINALIZER_NAME \in h2o[n].finalizers
        /\ is_ready(h2o[n])

\* C12: a reconcile goes on past the flatfile distribution only when every pod
\* answered the POST with 200, and a reconcile whose flatfile request failed
\* has returned an error to the controller.
C12_FlatfileFailureFailsReconcile ==
    \A n \in Names :
        /\ (pc[n] \in PastSendFlatfile) => loc[n].flatOk
        /\ (pc[n] = "idle" /\ loc[n].at = "send_flatfile") =>
              result[n] \in {"DeploymentError", "KubeError"}

\* C13: a Create reconcile whose cluster-status poll ran into the 180 s timeout
\* has returned a Timeout error to a running controller, and Ready is not true.
C13_TimeoutEndsWithError ==
    \A n \in Names :
        (pc[n] = "idle" /\ loc[n].action = "Create" /\ loc[n].at = "wait_clustered") =>
            /\ result[n] = "Timeout"
            /\ process = "running"
            /\ ~is_ready(h2o[n])

C15_RequeueHints ==
    \A n \in Names :
        (Returned(n) /\ result[n] = "Ok") =>
            RequeueAfter(n) = CASE loc[n].action = "Create" -> Some(10)
                                [] loc[n].action = "Delete" -> None
                                [] OTHER -> Some(5)

\* C16: every reconcile that ended has returned Ok or an error value to the
\* controller, and an error is rescheduled with a 5 s hint.
C16_FailuresReturnErrors ==
    \A n \in Names :
        /\ result[n] \in {"none", "Ok"} \cup ErrorResults
        /\ result[n] \in ErrorResults => RequeueAfter(n) = Some(5)

\* C17: a Create reconcile of a spec with neither version nor customImage has
\* returned a UserError, the error is in the resource's status, and the
\* resource is not requeued.
C17_UserInputSurfaced ==
    \A n \in Names :
        (Returned(n) /\ loc[n].action = "Create" /\ ~loc[n].image /\ h2o[n].exists) =>
            /\ PodsLabelled(n) = {}
            /\ result[n] = "UserError"
            /\ h2o[n].status # NoStatus
            /\ RequeueAfter(n) = None

\* C18: the DeploymentError a failed Create returned carries one of the errors
\* pod creation ended with.
C18_DeploymentErrorCarriesCause ==
    \A n \in Names :
        (Returned(n) /\ loc[n].action = "Create" /\ result[n] = "DeploymentError") =>
            SurfacedMessage(n) \in pod_creation_errors(loc[n])

\* C19: when main found the CRD installed, the process has exited with code 1
\* exactly when the set of versions the installed CRD serves differs from the
\* set the compiled CRD serves.
C19_FatalIffServedVersionsDiffer ==
    (boot.found /\ boot.pc \in {"run", "controller", "exited"}) =>
        ((boot.exited /\ boot.code = 1)
            <=> served_versions(boot.crd.versions) # served_versions(construct_h2o_crd))

\* C20: the controller runs only after the ConfigMap was seeded and the CRD
\* checked or installed, and a process that ended during the start ended with
\* exit code 1.
C20_StartupOrderAndExitCodes ==
    /\ boot.pc = "controller" => (boot.seeded /\ boot.checked)
    /\ boot.exited => boot.code = 1

\* C21: after a start of src/main.rs that got as far as controller::run, the
\* ConfigMap h2o-clustering exists and its binary data is the one entry
\* h2o-clustering.jar holding the bytes of the file read in this start.
C21_ConfigMapFresh ==
    (boot.main = "root" /\ boot.pc \in {"run", "controller"}) =>
        /\ boot.configmap
        /\ boot.binary_data = {<<H2O_CLUSTERING_JAR_FILE_NAME, boot.file>>}

\* The controller runs after a start that found a ConfigMap with other bytes
\* and a second entry, deleted it and created the new one.
C21_Witness ==
    /\ boot.main = "root"
    /\ boot.pc = "controller"
    /\ boot.replaced
    /\ boot.file = "jar2"
    /\ boot.binary_data = {<<H2O_CLUSTERING_JAR_FILE_NAME, "jar2">>}

\* C22: add_finalizer applied twice leaves a resource as add_finalizer applied
\* once does, and so does remove_finalizer.
C22_FinalizerIdempotent ==
    (call.fn \in {"add_finalizer", "remove_finalizer"}) => call.out[1] = call.out[2]

\* add_finalizer was applied to a resource that carried two other finalizers
\* and not the operator's.
C22_Witness ==
    /\ call.fn = "add_finalizer"
    /\ call.arg.exists
    /\ call.arg.finalizers = {"h2o3.h2o.ai", "foregroundDeletion"}
    /\ call.out[2].finalizers = {FINALIZER_NAME}

C24_HeadlessServiceAfterCreate ==
    \A n \in Names :
        (Returned(n) /\ loc[n].action = "Create" /\ result[n] = "Ok") =>
            /\ services[n].exists
            /\ services[n].clusterIP = "None"
            /\ services[n].selectorKey = "app"
            /\ services[n].selectorVal = n

\* C25: a Delete reconcile whose deletion of the service fails goes on to the
\* bulk pod delete: no Delete reconcile ends at the deletion of the service.
C25_ServiceDeletionBestEffort ==
    \A n \in Names :
        ~(/\ pc[n] = "idle"
          /\ loc[n].action = "Delete"
          /\ result[n] = "Panic"
          /\ loc[n].at = "delete_service")

\* C26: the schema admits a spec exactly when it holds exactly one of version
\* and customImage, resources.cpu >= 1, nodes >= 1 and a memory string that
\* matches the pattern.
C26_AdmissionExactlyOneImageSource ==
    (call.fn = "schema_admits") =>
        (call.out <=>
            /\ ("version" \in call.arg.keys) # ("customImage" \in call.arg.keys)
            /\ call.arg.cpu >= 1
            /\ call.arg.nodes >= 1
            /\ memory_pattern(call.arg.memory))

\* C27: with customImage set every container has customImage.image and, when
\* customImage.command is given, that command (none otherwise), whatever the
\* version; otherwise with a version the image is h2oai/h2o-open-source-k8s:<version>
\* and the command the java launch command with MaxRAMPercentage set to
\* memoryPercentage, or 50 when absent; with neither no pod is rendered.
C27_ImageAndCommandResolution ==
    (call.fn = "create_pods") =>
        LET s == call.arg
            out == call.out
        IN  IF s.custom_image # None
            THEN /\ out.kind = "Pod"
                 /\ out.image = s.custom_image[1].image
                 /\ out.command = IF s.custom_image[1].command = None THEN None
                                  ELSE Some(s.custom_image[1].command[1].value)
            ELSE IF s.version # None
            THEN /\ out.kind = "Pod"
                 /\ out.image = <<"h2oai/h2o-open-source-k8s:", s.version[1]>>
                 /\ out.command =
                       Some(launch_command(IF s.memory_percentage = None THEN 50
                                           ELSE s.memory_percentage[1]).value)
            ELSE out.kind # "Pod"

\* A step starts the named step of cluster_pods for n.
Enters(n, label) == pc[n] # label /\ pc'[n] = label

\* C28: cluster_pods runs its steps in order.  The API-online gate is entered
\* only from the wait for the pods, with spec.nodes pods seen with an IP; a
\* flatfile reaches a pod only in send_flatfile, which is entered only from a
\* passed gate; the cluster-status poll is entered only from send_flatfile; the
\* leader is learnt only from a 200 answer in the poll; the leader label is set
\* only in the label step, entered only from the poll with a leader learnt; the
\* service is created only in its step, entered only from the label step with
\* the label set.
C28_ClusteringStepsInOrder ==
    [][\A n \in Names :
          /\ Enters(n, "api_online") =>
                /\ pc[n] = "wait_pods_created"
                /\ Cardinality(loc'[n].discovered) = loc[n].nodes
                /\ \A i \in loc'[n].discovered : pods[n][i].phase = "none" \/ pods[n][i].ip
          /\ Enters(n, "send_flatfile") =>
                /\ pc[n] = "api_online"
                /\ Cardinality(loc[n].discovered) = loc[n].nodes
                /\ all_pods_apis_ready(n, loc[n].discovered)
          /\ (\E i \in PodIdx : pods'[n][i].flat # pods[n][i].flat /\ pods'[n][i].flat # {}) =>
                pc[n] = "send_flatfile"
          /\ Enters(n, "wait_clustered") => pc[n] = "send_flatfile"
          /\ (loc'[n].leader # loc[n].leader /\ loc'[n].leader # NoAddr) =>
                /\ pc[n] = "wait_clustered"
                /\ \E p \in loc[n].discovered : cluster_status(pods[n][p]) = 200
          /\ Enters(n, "label_leader") => pc[n] = "wait_clustered" /\ loc'[n].leader # NoAddr
          /\ (\E i \in PodIdx : pods'[n][i].leader /\ ~pods[n][i].leader) =>
                pc[n] = "label_leader" /\ loc[n].leader # NoAddr
          /\ Enters(n, "create_service") => pc[n] = "label_leader" /\ LeaderPods(n)' # {}
          /\ (services'[n].exists /\ ~services[n].exists) =>
                pc[n] = "create_service" /\ LeaderPods(n) # {}
      ]_vars

\* cluster_pods ran to its end for a cluster of two nodes.
C28_Witness ==
    \E n \in Names :
        /\ pc[n] = "add_finalizer"
        /\ loc[n].nodes = 2
        /\ Cardinality(loc[n].discovered) = 2
        /\ \A i \in loc[n].discovered : pods[n][i].flat # {}
        /\ Cardinality(LeaderPods(n)) = 1
        /\ services[n].exists

\* C29: the API-online gate is left only towards send_flatfile, by a polling
\* round in which every pod of the cluster answered 204; a round with another
\* answer or with a failed request leaves the reconcile in the gate, and the
\* reconcile never ends in the gate by a failure of its own.
C29_ApiOnlineGate ==
    [][\A n \in Names :
          (pc[n] = "api_online" /\ pc'[n] # "api_online") =>
              \/ /\ pc'[n] = "send_flatfile"
                 /\ process' = "running"
                 /\ Cardinality(loc[n].discovered) = loc[n].nodes
                 /\ \A i \in loc[n].discovered : cluster_status(pods[n][i]) = 204
                 /\ loc'[n] = loc[n]
              \/ /\ pc'[n] = "idle"
                 /\ result'[n] = "Aborted"
      ]_vars

\* The gate was passed for a cluster of two nodes.
C29_Witness ==
    \E n \in Names :
        /\ pc[n] = "send_flatfile"
        /\ process = "running"
        /\ loc[n].nodes = 2
        /\ \A i \in loc[n].discovered : cluster_status(pods[n][i]) = 204

\* C30: wait_pods_deleted, once entered, returns, given that every pod under
\* app=n is eventually removed (no request fails, every removal happens).
C30_WaitDeletedReturns ==
    \A n \in Names :
        (pc[n] = "wait_deleted_list")
            ~> (pc[n] \notin {"wait_deleted_list", "wait_deleted_start", "wait_deleted_watch"})

\* C31: wait_pod_status has returned exactly when the names of the pods that
\* passed the check so far number expected_count; the list it returns holds
\* expected_count pods of pairwise distinct names, each passing the check in
\* the version recorded.
C31_WaitUntilReturnsDistinctPods ==
    (call.fn = "wait_pod_status") =>
        LET w == call.out
            pods_out == returned_pods(w.discovered_pods)
        IN  /\ w.done <=> Cardinality(w.passed) = call.arg
            /\ Cardinality(w.discovered_pods) = Cardinality(w.passed)
            /\ w.done =>
                  /\ Cardinality(w.discovered_pods) = call.arg
                  /\ Cardinality(pods_out) = call.arg
                  /\ \A p, q \in pods_out : p.name = q.name => p = q
                  /\ \A p \in pods_out : pod_status_check(p)

\* The wait for two pods returned after three events: some event repeated a
\* pod already recorded or carried a pod without an IP.
C31_Witness ==
    /\ call.fn = "wait_pod_status"
    /\ call.arg = 2
    /\ call.out.done
    /\ call.out.events = 3
    /\ \E e \in call.out.discovered_pods : e[2].version = 2

\* The lines of a text: the pieces between its newline characters.
RECURSIVE Lines(_)
Lines(text) ==
    IF \A k \in 1..Len(text) : text[k] # "\n" THEN <<text>>
    ELSE LET k == CHOOSE j \in 1..Len(text) :
                     text[j] = "\n" /\ \A m \in 1..(j - 1) : text[m] # "\n"
         IN  <<SubSeq(text, 1, k - 1)>> \o Lines(SubSeq(text, k + 1, Len(text)))

\* C32: every pod address gets one request; all requests carry the same
\* flatfile; its lines are as many as the pod addresses, and every pod address
\* is on exactly one line, written <ip>:54321.
C32_FlatfileOneLinePerPod ==
    (call.fn = "send_flatfile") =>
        LET pod_ips == call.arg
            requests == call.out
        IN  /\ Len(requests) = Len(pod_ips)
            /\ \A k \in 1..Len(pod_ips) : requests[k].to = pod_ips[k]
            /\ \A j, k \in 1..Len(requests) : requests[j].body = requests[k].body
            /\ LET lines == Lines(requests[1].body)
               IN  /\ Len(lines) = Len(pod_ips)
                   /\ \A k \in 1..Len(pod_ips) :
                         Cardinality({j \in 1..Len(lines) :
                             lines[j] = ip_to_string(pod_ips[k])
                                        \o <<":", "5", "4", "3", "2", "1">>}) = 1

\* The flatfile for the two pods 10.0.0.11 and 10.0.0.10, in this order.
C32_Witness ==
    /\ call.fn = "send_flatfile"
    /\ Len(call.arg) = 2
    /\ call.arg[1] = <<10, 0, 0, 11>>
    /\ call.out[2].body =
          <<"1", "0", ".", "0", ".", "0", ".", "1", "1", ":", "5", "4", "3", "2", "1", "\n",
            "1", "0", ".", "0", ".", "0", ".", "1", "0", ":", "5", "4", "3", "2", "1">>

\* C33: the creation of the leader service for a name that has a service
\* already succeeds and leaves the one service, so the reconcile that made the
\* call goes on.
C33_ServiceCreateIdempotent ==
    (call.fn = "service_create" /\ call.arg.existing.exists /\ call.arg.accepted) =>
        /\ call.out.result = "Ok"
        /\ call.out.service.exists

\* C34: a start that found no CRD reaches controller::run only with the CRD
\* created, its condition NamesAccepted True, and that status observed by the
\* wait; a start that ended in the wait ended with a non-zero exit code and
\* without having observed it.
C34_ControllerStartsAfterNamesAccepted ==
    /\ (boot.main = "operator" /\ ~boot.found /\ boot.pc \in {"run", "controller"}) =>
          /\ boot.crd.present
          /\ boot.watching
          /\ boot.condition = "True"
          /\ boot.observed = "True"
    /\ (boot.exited /\ boot.watching) =>
          /\ boot.code # 0
          /\ boot.observed # "True"

\* The CRD was created, a Modified event with NamesAccepted True was taken
\* from the watch, and the controller was started.
C34_Witness ==
    /\ boot.main = "operator" /\ ~boot.found
    /\ boot.pc = "controller"
    /\ boot.observed = "True"
    /\ boot.events = <<>>
    /\ boot.crd.versions = construct_h2o_crd

\* A step of the reconcile in flight for a.
ReconcileStep(a) ==
    /\ process = "running"
    /\ pc[a] # "idle"
    /\ pc'[a] # pc[a] \/ loc'[a] # loc[a] \/ result'[a] # result[a]

\* C35: a step of the reconcile for a changes no pod, service, finalizer, status
\* or other field of the resource of another name b, and no step changes the
\* pods, services or resources of two names.
C35_PerKeyIsolation ==
    [][\A a, b \in Names :
          a # b =>
             /\ ReconcileStep(a) =>
                   /\ pods'[b] = pods[b]
                   /\ services'[b] = services[b]
                   /\ h2o'[b] = h2o[b]
             /\ (pods'[a] # pods[a] \/ services'[a] # services[a] \/ h2o'[a] # h2o[a]) =>
                   /\ pods'[b] = pods[b]
                   /\ services'[b] = services[b]
                   /\ h2o'[b] = h2o[b]
      ]_vars

\* The Delete reconcile of t1 has issued its bulk delete while the Create
\* reconcile of t2 is in flight with its pod live.
C35_Witness ==
    /\ pc["t1"] = "wait_deleted_list"
    /\ pods["t1"][0].phase = "term"
    /\ pc["t2"] = "send_flatfile"
    /\ pods["t2"][0].phase = "live"

\* C36: once the platform has collected the resource of name n and no
\* reconcile for n is in flight, every pod still labelled app=n has had its
\* deletion issued.
C36_NoOrphanedPods ==
    \A n \in Names :
        (~h2o[n].exists /\ pc[n] = "idle") =>
            \A i \in PodsLabelled(n) : pods[n][i].phase = "term"

\* C37: after a Create of a resource returned Ok, and until a Delete reconcile
\* of it starts, the resource holds the token has_h2o3_finalizer tests, every
\* reconcile started for it without a deletion timestamp is a Verify, and no
\* pod and no service of its name is created.
C37_NoDuplicateCreation ==
    [][\A n \in Names :
          loc[n].established =>
             /\ has_h2o3_finalizer(h2o[n])
             /\ (Enters(n, "create_pods") \/ Enters(n, "verify") \/ Enters(n, "delete_service")) =>
                   /\ loc'[n].action # "Create"
                   /\ ~h2o[n].deletionTimestamp => loc'[n].action = "Verify"
             /\ loc'[n].established =>
                   /\ \A i \in PodIdx : pods[n][i].phase = "none" => pods'[n][i].phase = "none"
                   /\ services[n].exists \/ ~services'[n].exists
      ]_vars

\* A Verify reconcile is in flight for a resource whose Create returned Ok.
C37_Witness ==
    \E n \in Names :
        /\ loc[n].established
        /\ pc[n] = "verify"
        /\ loc[n].action = "Verify"
        /\ ~h2o[n].deletionTimestamp
        /\ Cardinality(PodsLabelled(n)) = loc[n].nodes

\* C38: the rollback of create_pods deletes only pods created by the same
\* call: a step out of the resolved fan-out changes no pod outside created,
\* and no pod whose name was taken before the call is in created.
C38_RollbackScope ==
    [][\A n \in Names :
          (pc[n] = "create_resolved" /\ pc'[n] # "create_resolved") =>
             /\ loc[n].created \cap loc[n].preexisting = {}
             /\ \A i \in PodIdx :
                   pods'[n][i] # pods[n][i] =>
                      i \in loc[n].created /\ i \notin loc[n].preexisting
      ]_vars

\* create_pods returned its errors after a rollback that deleted the pod it
\* had created, and the pod that was there before the call is still running.
C38_Witness ==
    \E n \in Names :
        /\ result[n] = "DeploymentError"
        /\ pc[n] = "idle"
        /\ \E i \in loc[n].preexisting : pods[n][i].phase = "live"
        /\ \E j \in loc[n].created : j \in loc[n].deleteIssued /\ pods[n][j].phase = "term"

RunningWithOneReadyCondition(st) ==
    /\ st.phase = "Running"
    /\ Len(st.conditions) = 1
    /\ st.conditions[1].type = "Ready"
    /\ st.conditions[1].status \in {"true", "false"}

\* C40: every step that changes the status of a resource that exists before
\* and after it writes phase Running with exactly one condition, Ready, of
\* status true or false; and every status a resource carries has that form.
C40_StatusShape ==
    [][\A n \in Names :
          /\ (h2o[n].exists /\ h2o'[n].exists /\ h2o'[n].status # h2o[n].status) =>
                RunningWithOneReadyCondition(h2o'[n].status)
          /\ (h2o'[n].exists /\ h2o'[n].status # NoStatus) =>
                RunningWithOneReadyCondition(h2o'[n].status)
      ]_vars

\* A Create that followed a completed Delete of the same name has written the
\* status of the new resource.
C40_Witness ==
    \E n \in Names :
        /\ Returned(n) /\ result[n] = "Ok"
        /\ loc[n].action = "Create" /\ loc[n].second
        /\ h2o[n].exists
        /\ h2o[n].status # NoStatus
        /\ h2o[n].status.conditions[1].status = "true"

====
